---- MODULE Spec2Model ----
(***************************************************************************)
(* docker-ctp: configuration resolution (CLI flags, .env file, defaults),  *)
(* the validate/login/build/tag/push workflow of DockerService, the        *)
(* command Runner and the CleanupManager.                                  *)
(*                                                                         *)
(* A Python str is a sequence of one-character strings; Python's None is   *)
(* the one-element sequence None, which no str equals.  A pathlib.Path is  *)
(* the str of its normalised form (PathOf).                                *)
(***************************************************************************)
EXTENDS Integers, Sequences, FiniteSets, TLC

None == <<"None">>

\* Python truthiness of an optional str: None and "" are falsy.
Falsy(s) == s = None \/ s = <<>>

(***************************************************************************)
(* str helpers used by the .env parser and the validators                  *)
(***************************************************************************)
UpperCase == <<"A","B","C","D","E","F","G","H","I","J","K","L","M",
               "N","O","P","Q","R","S","T","U","V","W","X","Y","Z">>
LowerCase == <<"a","b","c","d","e","f","g","h","i","j","k","l","m",
               "n","o","p","q","r","s","t","u","v","w","x","y","z">>
Digits == {"0","1","2","3","4","5","6","7","8","9"}
Whitespace == {" ", "\t", "\n", "\r"}
Quotes == {"'", "\""}

Range(f) == {f[i] : i \in DOMAIN f}

\* str.lower() on one character
LowerChar(c) ==
    IF \E i \in DOMAIN UpperCase : UpperCase[i] = c
    THEN LowerCase[CHOOSE i \in DOMAIN UpperCase : UpperCase[i] = c]
    ELSE c

\* str.lower()
Lower(s) == [i \in DOMAIN s |-> LowerChar(s[i])]

\* str.lstrip(chars) / str.rstrip(chars) / str.strip(chars)
RECURSIVE LStrip(_, _)
LStrip(s, chars) ==
    IF s # <<>> /\ Head(s) \in chars THEN LStrip(Tail(s), chars) ELSE s

RECURSIVE RStrip(_, _)
RStrip(s, chars) ==
    IF s # <<>> /\ s[Len(s)] \in chars
    THEN RStrip(SubSeq(s, 1, Len(s) - 1), chars)
    ELSE s

Strip(s, chars) == RStrip(LStrip(s, chars), chars)

\* index of the first occurrence of character c in s, 0 when absent
IndexOf(s, c) ==
    IF \E i \in DOMAIN s : s[i] = c
    THEN CHOOSE i \in DOMAIN s : s[i] = c /\ \A j \in 1..(i - 1) : s[j] # c
    ELSE 0

\* s.startswith(c) for a one-character prefix
StartsWith(s, c) == s # <<>> /\ Head(s) = c

\* sep.join(parts)
RECURSIVE Join(_, _)
Join(parts, sep) ==
    IF parts = <<>> THEN <<>>
    ELSE IF Len(parts) = 1 THEN parts[1]
    ELSE parts[1] \o sep \o Join(Tail(parts), sep)

(***************************************************************************)
(* Literals of the program                                                 *)
(***************************************************************************)
DOCKER == <<"d","o","c","k","e","r">>
GITHUB == <<"g","i","t","h","u","b">>
GHCR_IO == <<"g","h","c","r",".","i","o">>
TRUE_STR == <<"t","r","u","e">>
DOT == <<".">>
COLON == <<":">>
SLASH == <<"/">>

DEFAULT_REGISTRY == DOCKER
DEFAULT_DOCKERHUB_TAG == <<"l","a","t","e","s","t">>
DEFAULT_GITHUB_TAG == <<"m","a","i","n">>
DEFAULT_DOCKERFILE_DIR == DOT

LOG_NORMAL == <<"n","o","r","m","a","l">>
LOG_VERBOSE == <<"v","e","r","b","o","s","e">>
LOG_QUIET == <<"q","u","i","e","t">>

(***************************************************************************)
(* State                                                                   *)
(***************************************************************************)
VARIABLES
    cmdline,        \* the options given on the command line (None: not given)
    environ,        \* os.environ
    cwdName,        \* Path.cwd().name
    envFiles,       \* the files at the four .env locations (NoFile: absent)
    dirs,           \* the directories that exist on the host
    dockerfiles,    \* the directories that hold a file named Dockerfile
    stdinTty,       \* os.isatty(0)
    dockerOnPath,   \* shutil.which("docker") finds an executable
    localImages,    \* image references known to the local Docker daemon
    daemonUp,       \* the Docker daemon answers
    config,         \* the Config instance
    runner,         \* the Runner instance
    cleanup_manager,\* the CleanupManager instance: dry_run and images
    pc,             \* position of the run
    exc,            \* the exception in flight (NoExc: none)
    spawned,        \* every external process spawned so far, in order
    steps,          \* the workflow steps started so far, in order
    failedStep,     \* the workflow step that raised ("none": none)
    workflowExc,    \* what that step raised
    cleanupCalls,   \* number of calls of CleanupManager.cleanup
    cleanupIdx,     \* loop position inside CleanupManager.cleanup
    preexisting,    \* image references that existed before the run
    output,         \* messages written for the user: format string, arguments
    exitCode,       \* exit status of the process (-1: still running)
    dockerignore,   \* the file ./.dockerignore (NoFile: absent)
    logLevel        \* the level of the root logger

vars == <<cmdline, environ, cwdName, envFiles, dirs, dockerfiles, stdinTty,
          dockerOnPath, daemonUp, localImages, config, runner, cleanup_manager,
          pc, exc, spawned, steps, failedStep, workflowExc, cleanupCalls,
          cleanupIdx, preexisting, output, exitCode, dockerignore, logLevel>>

\* the part of the state that a run of the pipeline never changes: its inputs
inputs == <<cmdline, environ, cwdName, envFiles, dirs, dockerfiles, stdinTty,
            dockerOnPath, daemonUp, preexisting, dockerignore>>

(***************************************************************************)
(* utils/env.py                                                            *)
(***************************************************************************)
\* get_env(key, default): os.environ.get(key, default)
get_env(key, default) ==
    IF key \in DOMAIN environ /\ environ[key] # None THEN environ[key] ELSE default

(***************************************************************************)
(* pathlib                                                                 *)
(***************************************************************************)
RECURSIVE Split(_, _)
Split(s, c) ==
    LET i == IndexOf(s, c)
    IN  IF i = 0 THEN <<s>>
        ELSE <<SubSeq(s, 1, i - 1)>> \o Split(SubSeq(s, i + 1, Len(s)), c)

\* the components of a path: empty and "." components are dropped
PathParts(s) == SelectSeq(Split(s, "/"), LAMBDA p : p # <<>> /\ p # DOT)

\* Path(s), as the str of the normalised path
PathOf(s) ==
    LET parts == PathParts(s)
    IN  IF StartsWith(s, "/") THEN SLASH \o Join(parts, SLASH)
        ELSE IF parts = <<>> THEN DOT
        ELSE Join(parts, SLASH)

\* Path(s).resolve().name, for a path without ".." components
ResolveName(s) ==
    LET parts == PathParts(s)
    IN  IF parts # <<>> THEN parts[Len(parts)]
        ELSE IF StartsWith(s, "/") THEN <<>>
        ELSE cwdName


(***************************************************************************)
(* config/__init__.py                                                      *)
(***************************************************************************)
DEFAULT_DOCKER_USERNAME == get_env("USER", <<>>)
DEFAULT_GITHUB_USERNAME == get_env("USER", <<>>)
DEFAULT_IMAGE_NAME == cwdName

CredsFields == {"registry", "docker_username", "github_username", "username"}
ImageFields == {"image_name", "tag", "dockerfile_dir"}
BuildFields == {"use_cache", "force_rebuild"}
RuntimeFields == {"dry_run", "log_level", "cleanup_on_exit"}
ConfigFields == CredsFields \cup ImageFields \cup BuildFields \cup RuntimeFields
BoolFields == {"use_cache", "force_rebuild", "dry_run", "cleanup_on_exit"}
PathFields == {"dockerfile_dir"}

\* the attribute names of the four dataclasses, as str
FieldSpelling ==
    [registry |-> <<"r","e","g","i","s","t","r","y">>,
     docker_username |-> <<"d","o","c","k","e","r","_","u","s","e","r","n","a","m","e">>,
     github_username |-> <<"g","i","t","h","u","b","_","u","s","e","r","n","a","m","e">>,
     username |-> <<"u","s","e","r","n","a","m","e">>,
     image_name |-> <<"i","m","a","g","e","_","n","a","m","e">>,
     tag |-> <<"t","a","g">>,
     dockerfile_dir |-> <<"d","o","c","k","e","r","f","i","l","e","_","d","i","r">>,
     use_cache |-> <<"u","s","e","_","c","a","c","h","e">>,
     force_rebuild |-> <<"f","o","r","c","e","_","r","e","b","u","i","l","d">>,
     dry_run |-> <<"d","r","y","_","r","u","n">>,
     log_level |-> <<"l","o","g","_","l","e","v","e","l">>,
     cleanup_on_exit |-> <<"c","l","e","a","n","u","p","_","o","n","_","e","x","i","t">>]

\* _get_field_default: the dataclass default of a field
get_field_default(f) ==
    CASE f = "registry" -> DEFAULT_REGISTRY
      [] f = "docker_username" -> DEFAULT_DOCKER_USERNAME
      [] f = "github_username" -> DEFAULT_GITHUB_USERNAME
      [] f = "username" -> <<>>
      [] f = "image_name" -> DEFAULT_IMAGE_NAME
      [] f = "tag" -> None
      [] f = "dockerfile_dir" -> DEFAULT_DOCKERFILE_DIR
      [] f = "use_cache" -> TRUE
      [] f = "force_rebuild" -> FALSE
      [] f = "dry_run" -> FALSE
      [] f = "log_level" -> LOG_NORMAL
      [] f = "cleanup_on_exit" -> TRUE

\* Config(): every field at its dataclass default
DefaultConfig == [f \in ConfigFields |-> get_field_default(f)]

\* Config.from_cli(args)
from_cli(a) ==
    [registry |-> a.registry,
     docker_username |-> DEFAULT_DOCKER_USERNAME,
     github_username |-> DEFAULT_GITHUB_USERNAME,
     username |-> IF Falsy(a.username) THEN <<>> ELSE a.username,
     image_name |-> IF Falsy(a.image_name)
                    THEN ResolveName(a.dockerfile_dir)
                    ELSE a.image_name,
     tag |-> a.tag,
     dockerfile_dir |-> PathOf(a.dockerfile_dir),
     use_cache |-> ~a.no_cache,
     force_rebuild |-> a.force_rebuild,
     dry_run |-> a.dry_run,
     log_level |-> IF a.verbose THEN LOG_VERBOSE
                   ELSE IF a.quiet THEN LOG_QUIET ELSE LOG_NORMAL,
     cleanup_on_exit |-> ~a.no_cleanup]

\* a slip: the registry is not consulted
resolve_username_AlwaysDocker(c) ==
    IF Falsy(c.username) THEN [c EXCEPT !.username = c.docker_username] ELSE c

\* RegistryCredentials.resolve_username
resolve_username(c) ==
    IF Falsy(c.username)
    THEN [c EXCEPT !.username = IF c.registry = DOCKER
                                 THEN c.docker_username
                                 ELSE c.github_username]
    ELSE c

\* a slip: the registry is not consulted
set_default_tag_AlwaysLatest(c, registry) ==
    IF Falsy(c.tag) THEN [c EXCEPT !.tag = DEFAULT_DOCKERHUB_TAG] ELSE c

\* ImageInfo.set_default_tag
set_default_tag(c, registry) ==
    IF Falsy(c.tag)
    THEN [c EXCEPT !.tag = IF registry = DOCKER
                            THEN DEFAULT_DOCKERHUB_TAG
                            ELSE DEFAULT_GITHUB_TAG]
    ELSE c

\* a slip: each call qualifies the username with the registry host
resolve_QualifiesUsername(c) ==
    LET c1 == resolve_username(c)
        c2 == set_default_tag(c1, c1.registry)
    IN  [c2 EXCEPT !.username = GHCR_IO \o SLASH \o @]

\* Config.resolve
resolve(c) ==
    LET c1 == resolve_username(c)
    IN  set_default_tag(c1, c1.registry)

\* load_env, the type conversion of a value for a field
ConvertValue(f, value) ==
    IF f \in BoolFields THEN Lower(value) = TRUE_STR
    ELSE IF f \in PathFields THEN PathOf(value)
    ELSE value

\* load_env, the guard of one assignment: only a field that still holds its
\* dataclass default is overwritten
MayOverride(c, f) == c[f] = get_field_default(f)

\* load_env, the key of a line: None when the line is skipped
LineKey(line) ==
    LET l == Strip(line, Whitespace)
    IN  IF l = <<>> \/ StartsWith(l, "#") \/ IndexOf(l, "=") = 0 THEN None
        ELSE Lower(Strip(SubSeq(l, 1, IndexOf(l, "=") - 1), Whitespace))

\* load_env, the value of a line that has a key
LineValue(line) ==
    LET l == Strip(line, Whitespace)
    IN  Strip(Strip(SubSeq(l, IndexOf(l, "=") + 1, Len(l)), Whitespace), Quotes)

\* load_env, the field a key names: None when no dataclass has the attribute
KeyField(key) ==
    IF \E f \in ConfigFields : FieldSpelling[f] = key
    THEN CHOOSE f \in ConfigFields : FieldSpelling[f] = key
    ELSE "none"

\* load_env, one line of the file
ApplyLine(c, line) ==
    LET key == LineKey(line)
        f == KeyField(key)
    IN  IF key = None \/ f = "none" THEN c
        ELSE IF ~MayOverride(c, f) THEN c
        ELSE [c EXCEPT ![f] = ConvertValue(f, LineValue(line))]

RECURSIVE ApplyLines(_, _)
ApplyLines(c, lines) ==
    IF lines = <<>> THEN c
    ELSE ApplyLines(ApplyLine(c, Head(lines)), Tail(lines))

\* a file of the host: absent, or its lines
NoFile == [exists |-> FALSE, lines |-> <<>>]
File(lines) == [exists |-> TRUE, lines |-> lines]

\* load_env, the search path: ./.env is a candidate only in a directory
\* named docker-ctp; then ~/.config/docker-ctp/.env, ~/.docker-ctp/.env and
\* /etc/docker-ctp/.env (envFiles[1..4])
PROJECT_NAME == <<"d","o","c","k","e","r","-","c","t","p">>

\* a slip: ./.env is a candidate in every directory
SearchPaths_AlwaysCwd == <<1, 2, 3, 4>>

SearchPaths == IF cwdName = PROJECT_NAME THEN <<1, 2, 3, 4>> ELSE <<2, 3, 4>>

\* load_env, the file that is loaded: 0 when none of the candidates exists
FoundEnv ==
    LET found == SelectSeq(SearchPaths, LAMBDA i : envFiles[i].exists)
    IN  IF found = <<>> THEN 0 ELSE Head(found)

\* a slip: the defaults are resolved before the lines are merged
load_env_ResolveFirst(c) ==
    IF FoundEnv = 0 THEN c
    ELSE ApplyLines(resolve(c), envFiles[FoundEnv].lines)

\* load_env(config)
load_env(c) ==
    IF FoundEnv = 0 THEN c
    ELSE resolve(ApplyLines(c, envFiles[FoundEnv].lines))

(***************************************************************************)
(* exceptions.py                                                           *)
(***************************************************************************)
NoExc == [type |-> "none", msg |-> "", code |-> 0]

\* the DockerCTPError subclasses are click.ClickException: exit_code 1
ClickExceptions == {"ConfigError", "ValidationError", "AuthError",
                    "DependencyError", "DockerOperationError", "CLIError"}

\* a slip: the exception carries exit_code 0
ClickError_ExitZero(type, msg) == [type |-> type, msg |-> msg, code |-> 0]

\* click.ClickException.exit_code = 1
ClickError(type, msg) == [type |-> type, msg |-> msg, code |-> 1]

\* sys.exit(code) raises SystemExit, which is no subclass of Exception
SystemExit(code) == [type |-> "SystemExit", msg |-> "", code |-> code]

(***************************************************************************)
(* External commands: the argument vector and what is piped to stdin       *)
(***************************************************************************)
W_docker == DOCKER
W_info == <<"i","n","f","o">>
W_image == <<"i","m","a","g","e">>
W_inspect == <<"i","n","s","p","e","c","t">>
W_login == <<"l","o","g","i","n">>
W_build == <<"b","u","i","l","d">>
W_tag == <<"t","a","g">>
W_push == <<"p","u","s","h">>
W_rmi == <<"r","m","i">>
W_t == <<"-","t">>
W_u == <<"-","u">>
W_no_cache == <<"-","-","n","o","-","c","a","c","h","e">>
W_password_stdin == <<"-","-","p","a","s","s","w","o","r","d","-","s","t","d","i","n">>

Command(argv, stdin) == [argv |-> argv, stdin |-> stdin]

\* the docker subcommand of a spawned command
SubCommand(cmd) == cmd.argv[2]

(***************************************************************************)
(* core/runner.py                                                          *)
(***************************************************************************)
\* a slip: dry_run is not consulted
RunnerRun_IgnoresDryRun(r, ok) ==
    IF ok THEN [spawn |-> TRUE, exc |-> NoExc]
    ELSE [spawn |-> TRUE, exc |-> [type |-> "SystemExit", msg |-> "", code |-> 1]]

\* Runner.run(args) when the command would exit with status 0 (ok) or not:
\* whether a process is spawned, and what is raised
RunnerRun(r, ok) ==
    IF r.dry_run THEN [spawn |-> FALSE, exc |-> NoExc]
    ELSE IF ok THEN [spawn |-> TRUE, exc |-> NoExc]
    ELSE [spawn |-> TRUE, exc |-> SystemExit(1)]

(***************************************************************************)
(* utils/input_validation.py                                               *)
(***************************************************************************)
IDENT_MAX_LEN == 100

IdentChars == Range(UpperCase) \cup Range(LowerCase) \cup Digits \cup {".", "_", "-"}

\* [a-zA-Z0-9._-]{1,100} spans the whole of s
IdentFull(s) ==
    /\ Len(s) >= 1
    /\ Len(s) <= IDENT_MAX_LEN
    /\ \A i \in DOMAIN s : s[i] \in IdentChars

\* re.match(r"^[a-zA-Z0-9._-]{1,100}$", s): "$" also matches just before a
\* newline that ends the string
IdentMatch(s) ==
    \/ IdentFull(s)
    \/ /\ Len(s) >= 1
       /\ s[Len(s)] = "\n"
       /\ IdentFull(SubSeq(s, 1, Len(s) - 1))

validate_username(username) ==
    IF IdentMatch(username) THEN NoExc
    ELSE ClickError("ValidationError", "Invalid username")

validate_image_name(name) ==
    IF IdentMatch(name) THEN NoExc
    ELSE ClickError("ValidationError", "Invalid image name")

validate_tag(tag) ==
    IF IdentMatch(tag) THEN NoExc
    ELSE ClickError("ValidationError", "Invalid tag")

\* a slip: a missing Dockerfile is reported as a missing directory
validate_dockerfile_dir_OneMessage(path) ==
    IF path \notin dockerfiles
    THEN ClickError("ValidationError", "Dockerfile directory not found")
    ELSE NoExc

validate_dockerfile_dir(path) ==
    IF path \notin dirs
    THEN ClickError("ValidationError", "Dockerfile directory not found")
    ELSE IF path \notin dockerfiles
    THEN ClickError("ValidationError", "Dockerfile not found")
    ELSE NoExc

\* the first exception of a sequence of checks
RECURSIVE FirstError(_)
FirstError(checks) ==
    IF checks = <<>> THEN NoExc
    ELSE IF Head(checks) # NoExc THEN Head(checks)
    ELSE FirstError(Tail(checks))

(***************************************************************************)
(* core/service.py: DockerService._validate_inputs                         *)
(***************************************************************************)
validate_inputs(c) ==
    FirstError(<<
        IF c.registry \notin {DOCKER, GITHUB}
        THEN ClickError("ConfigError", "Registry must be 'docker' or 'github'")
        ELSE NoExc,
        validate_username(c.username),
        validate_image_name(c.image_name),
        IF ~Falsy(c.tag) THEN validate_tag(c.tag) ELSE NoExc,
        validate_dockerfile_dir(c.dockerfile_dir),
        IF c.dockerfile_dir \notin dockerfiles
        THEN ClickError("ConfigError", "Dockerfile not found")
        ELSE NoExc
    >>)

(***************************************************************************)
(* utils/auth.py                                                           *)
(***************************************************************************)
\* a slip: the fallback variable is consulted before the primary one
TOKEN_ENVS_FallbackFirst(registry) ==
    IF registry = DOCKER THEN <<"DOCKER_PASSWORD", "DOCKER_TOKEN">>
    ELSE IF registry = GITHUB THEN <<"GHCR_TOKEN", "GITHUB_TOKEN">>
    ELSE <<>>

TOKEN_ENVS(registry) ==
    IF registry = DOCKER THEN <<"DOCKER_TOKEN", "DOCKER_PASSWORD">>
    ELSE IF registry = GITHUB THEN <<"GITHUB_TOKEN", "GHCR_TOKEN">>
    ELSE <<>>

\* get_token, the loop over TOKEN_ENVS: the first non-empty variable, or None
EnvToken(registry) ==
    LET set == SelectSeq(TOKEN_ENVS(registry), LAMBDA k : ~Falsy(get_env(k, None)))
    IN  IF set = <<>> THEN None ELSE get_env(Head(set), None)

(***************************************************************************)
(* core/docker_ops.py and utils/rebuild.py                                 *)
(***************************************************************************)
\* a slip: the registry-qualified name stands where the local one belongs
LocalRef_Qualified(c) ==
    IF c.registry = DOCKER
    THEN c.docker_username \o SLASH \o c.image_name \o COLON \o c.tag
    ELSE GHCR_IO \o SLASH \o c.github_username \o SLASH \o c.image_name
         \o COLON \o c.tag

\* a slip: the resolved login name stands for the registry's own username
TargetRef_UsesUsername(c) ==
    IF c.registry = DOCKER
    THEN c.username \o SLASH \o c.image_name \o COLON \o c.tag
    ELSE GHCR_IO \o SLASH \o c.username \o SLASH \o c.image_name
         \o COLON \o c.tag

\* a slip: force_rebuild is not consulted
BuildInspects_Always(c) == TRUE

\* the local reference <image_name>:<tag>
LocalRef(c) == c.image_name \o COLON \o c.tag

\* tag_image, the registry-qualified target
TargetRef(c) ==
    IF c.registry = DOCKER
    THEN c.docker_username \o SLASH \o c.image_name \o COLON \o c.tag
    ELSE GHCR_IO \o SLASH \o c.github_username \o SLASH \o c.image_name
         \o COLON \o c.tag

\* a slip: the token is handed to docker login as an argument as well
LoginArgv_PasswordFlag(c) ==
    <<W_docker, W_login>>
    \o (IF c.registry = GITHUB THEN <<GHCR_IO>> ELSE <<>>)
    \o <<W_u, c.username, <<"-","p">>, EnvToken(c.registry), W_password_stdin>>

\* login, the argument vector of docker login
LoginArgv(c) ==
    <<W_docker, W_login>>
    \o (IF c.registry = GITHUB THEN <<GHCR_IO>> ELSE <<>>)
    \o <<W_u, c.username, W_password_stdin>>

\* build, the argument vector of docker build
BuildArgv(c) ==
    <<W_docker, W_build>>
    \o (IF ~c.use_cache THEN <<W_no_cache>> ELSE <<>>)
    \o <<W_t, LocalRef(c), c.dockerfile_dir>>

\* image_exists(tag): docker image inspect exits with status 0
InspectCmd(ref) == Command(<<W_docker, W_image, W_inspect, ref>>, None)

image_exists(ref) == daemonUp /\ ref \in localImages

\* build, whether image_exists is called: `not config.force_rebuild and ...`
BuildInspects(c) == ~c.force_rebuild

\* what a user may type at the getpass prompt
TypedTokens == {<<>>, <<"s","9">>}

(***************************************************************************)
(* cli/__init__.py: the options as click hands them to main_command        *)
(***************************************************************************)
kwargs ==
    [registry |-> IF cmdline.registry = None THEN DEFAULT_REGISTRY
                  ELSE cmdline.registry,
     username |-> cmdline.username,
     image_name |-> cmdline.image_name,
     tag |-> cmdline.tag,
     dockerfile_dir |-> IF cmdline.dockerfile_dir = None
                        THEN DEFAULT_DOCKERFILE_DIR
                        ELSE PathOf(cmdline.dockerfile_dir),
     no_cache |-> cmdline.no_cache,
     force_rebuild |-> cmdline.force_rebuild,
     dry_run |-> cmdline.dry_run,
     verbose |-> cmdline.verbose,
     quiet |-> cmdline.quiet,
     no_cleanup |-> cmdline.no_cleanup]

(***************************************************************************)
(* core/service.py: DockerService.execute_workflow                         *)
(***************************************************************************)
\* the statements of the try block, in program order
WorkflowOrder == <<"validate", "login", "build", "tag", "register", "push">>

\* where control goes when a step returns normally
NextStep(step) ==
    LET i == CHOOSE k \in DOMAIN WorkflowOrder : WorkflowOrder[k] = step
    IN  IF i < Len(WorkflowOrder) THEN WorkflowOrder[i + 1] ELSE "finally"

\* a slip: the error of a step is swallowed and the next statement runs
RaiseTarget_Continue(step) == NextStep(step)

\* where control goes when a step raises: out of the try block
RaiseTarget(step) == "finally"

\* `except Exception` catches e
CaughtAsException(e) == e.type \notin {"none", "SystemExit"}

\* a slip: the cleanup sits at the end of the try block, not in finally
FinallyCleans_OnSuccessOnly(c, e) == c.cleanup_on_exit /\ e = NoExc

\* the finally block: `if self.config.cleanup_on_exit`
FinallyCleans(c, e) == c.cleanup_on_exit

\* a step that returned normally
StepOk(step) ==
    /\ pc' = NextStep(step)
    /\ UNCHANGED <<exc, failedStep, workflowExc, output>>

\* a step that raised e: the except clause logs and re-raises
StepRaise(step, e) ==
    /\ pc' = RaiseTarget(step)
    /\ exc' = e
    /\ failedStep' = step
    /\ workflowExc' = e
    /\ output' = IF CaughtAsException(e)
                 THEN Append(output, [text |-> "Workflow failed: " \o e.msg,
                                      args |-> <<>>])
                 ELSE output

StepEnd(step, e) == IF e = NoExc THEN StepOk(step) ELSE StepRaise(step, e)

\* whether the external command can exit with status 0 in this state
CanSucceed(cmd) ==
    CASE SubCommand(cmd) = W_tag -> cmd.argv[3] \in localImages
      [] SubCommand(cmd) = W_push -> cmd.argv[3] \in localImages
      [] SubCommand(cmd) = W_rmi -> cmd.argv[3] \in localImages
      [] OTHER -> TRUE

\* the exit statuses (0: TRUE) the command can end with
Outcomes(cmd) == IF CanSucceed(cmd) THEN BOOLEAN ELSE {FALSE}

\* the reference a docker build command names after -t
BuildRef(cmd) == cmd.argv[(CHOOSE i \in DOMAIN cmd.argv : cmd.argv[i] = W_t) + 1]

\* the effect of a command that exited with status 0 on the local image store
DaemonEffect(cmd, store) ==
    CASE SubCommand(cmd) = W_build -> store \cup {BuildRef(cmd)}
      [] SubCommand(cmd) = W_tag -> store \cup {cmd.argv[4]}
      [] SubCommand(cmd) = W_rmi -> store \ {cmd.argv[3]}
      [] OTHER -> store

\* Runner.run(argv) after the processes `before` of the same step: the
\* command is spawned unless dry-run, ends with status ok, and changes the
\* image store when it succeeds; RunnerRun(runner, ok).exc is what is raised
RunCommand(before, cmd, ok) ==
    LET res == RunnerRun(runner, ok)
    IN  /\ spawned' = spawned \o before \o (IF res.spawn THEN <<cmd>> ELSE <<>>)
        /\ localImages' = IF res.spawn /\ ok
                          THEN DaemonEffect(cmd, localImages)
                          ELSE localImages

(***************************************************************************)
(* cli/__init__.py: main_command, up to the call of execute_workflow       *)
(***************************************************************************)
\* configure_logging(verbose, quiet, console): the level handed to
\* logging.basicConfig
configure_logging(verbose, quiet) ==
    IF quiet THEN "ERROR" ELSE IF verbose THEN "DEBUG" ELSE "INFO"

\* configure_logging(...); config = Config.from_cli(args)
FromCli ==
    /\ pc = "from_cli"
    /\ logLevel' = configure_logging(kwargs.verbose, kwargs.quiet)
    /\ config' = from_cli(kwargs)
    /\ pc' = "load_env"
    /\ UNCHANGED <<inputs, localImages, runner, cleanup_manager, exc, spawned,
                   steps, failedStep, workflowExc, cleanupCalls, cleanupIdx,
                   output, exitCode>>

\* load_env(config)
LoadEnv ==
    /\ pc = "load_env"
    /\ config' = load_env(config)
    /\ pc' = "resolve"
    /\ UNCHANGED <<inputs, logLevel, localImages, runner, cleanup_manager, exc, spawned,
                   steps, failedStep, workflowExc, cleanupCalls, cleanupIdx,
                   output, exitCode>>

\* config.resolve(); runner = Runner(...); cleanup_manager = CleanupManager(...)
\* (the console handed to Runner and runner.messages only write to the
\* terminal; of the Runner the model keeps dry_run)
Resolve ==
    /\ pc = "resolve"
    /\ config' = resolve(config)
    /\ runner' = [dry_run |-> config'.dry_run]
    /\ cleanup_manager' = [dry_run |-> config'.dry_run, images |-> <<>>]
    /\ pc' = "check_dependencies"
    /\ UNCHANGED <<inputs, logLevel, localImages, exc, spawned, steps, failedStep,
                   workflowExc, cleanupCalls, cleanupIdx, output, exitCode>>

\* utils/dependency_checker.py: check_dependencies(runner)
InfoCmd == Command(<<W_docker, W_info>>, None)

\* a slip: the daemon is probed in dry-run too
ChecksDaemon_Always(r) == TRUE

\* check_dependencies, whether the daemon is probed: `if runner.dry_run:` skips
ChecksDaemon(r) == ~r.dry_run

CheckDependencies ==
    /\ pc = "check_dependencies"
    /\ IF ~dockerOnPath
       THEN /\ exc' = ClickError("DependencyError", "Docker is not installed")
            /\ pc' = "return"
            /\ UNCHANGED spawned
       ELSE IF ~ChecksDaemon(runner)
       THEN /\ pc' = "validate"
            /\ UNCHANGED <<exc, spawned>>
       ELSE /\ spawned' = Append(spawned, InfoCmd)
            /\ IF daemonUp
               THEN pc' = "validate" /\ UNCHANGED exc
               ELSE /\ exc' = ClickError("DependencyError",
                                         "Docker daemon is not running.")
                    /\ pc' = "return"
    /\ UNCHANGED <<inputs, logLevel, localImages, config, runner, cleanup_manager, steps,
                   failedStep, workflowExc, cleanupCalls, cleanupIdx, output,
                   exitCode>>

(***************************************************************************)
(* core/service.py: the steps of execute_workflow                          *)
(***************************************************************************)
\* self._validate_inputs()
Validate ==
    /\ pc = "validate"
    /\ steps' = Append(steps, "validate")
    /\ StepEnd("validate", validate_inputs(config))
    /\ UNCHANGED <<inputs, logLevel, localImages, config, runner, cleanup_manager,
                   spawned, cleanupCalls, cleanupIdx, exitCode>>

\* login, the messages it logs on its way to the stage where it ends: the
\* format string and its arguments
LoginLog(c, stage) ==
    <<[text |-> "Logging into %s", args |-> <<c.registry>>]>>
    \o (IF stage = "dry_run"
        THEN <<[text |-> "DRY-RUN: skipping docker login", args |-> <<>>]>>
        ELSE <<[text |-> "Attempting to get token for registry: %s",
                args |-> <<c.registry>>]>>)
    \o (IF stage = "no_token"
        THEN <<[text |-> "Authentication token not found.", args |-> <<>>]>>
        ELSE <<>>)
    \o (IF stage \in {"failed", "ok"}
        THEN <<[text |-> "Token found, proceeding with login for user: %s",
                args |-> <<c.username>>],
               [text |-> "Executing command: %s", args |-> LoginArgv(c)],
               [text |-> "Waiting for docker login process to complete...",
                args |-> <<>>],
               [text |-> "Process finished with return code: %s",
                args |-> <<IF stage = "ok" THEN <<"0">> ELSE <<"1">>>>]>>
        ELSE <<>>)
    \o (IF stage = "ok"
        THEN <<[text |-> "Successfully authenticated with registry",
                args |-> <<>>]>>
        ELSE <<>>)

\* docker_ops.login(self.config, self.runner)
Login ==
    /\ pc = "login"
    /\ steps' = Append(steps, "login")
    /\ LET End(e, stage) ==
            /\ pc' = IF e = NoExc THEN NextStep("login") ELSE RaiseTarget("login")
            /\ exc' = IF e = NoExc THEN exc ELSE e
            /\ failedStep' = IF e = NoExc THEN failedStep ELSE "login"
            /\ workflowExc' = IF e = NoExc THEN workflowExc ELSE e
            /\ output' = output \o LoginLog(config, stage)
                          \o (IF e # NoExc /\ CaughtAsException(e)
                              THEN <<[text |-> "Workflow failed: " \o e.msg,
                                      args |-> <<>>]>>
                              ELSE <<>>)
       IN  IF runner.dry_run
           THEN End(NoExc, "dry_run") /\ UNCHANGED spawned
           ELSE LET envToken == EnvToken(config.registry)
                IN  IF envToken = None /\ ~stdinTty
                    THEN /\ End(ClickError("AuthError",
                                           "Environment variable not set"),
                                "auth_error")
                         /\ UNCHANGED spawned
                    ELSE \E token \in (IF envToken = None THEN TypedTokens
                                       ELSE {envToken}) :
                            IF Falsy(token)
                            THEN /\ End(ClickError("DockerOperationError",
                                                   "No token found"),
                                        "no_token")
                                 /\ UNCHANGED spawned
                            ELSE /\ spawned' = Append(spawned,
                                        Command(LoginArgv(config), token))
                                 /\ \E ok \in BOOLEAN :
                                      IF ok THEN End(NoExc, "ok")
                                      ELSE End(ClickError("DockerOperationError",
                                                          "Failed to login"),
                                               "failed")
    /\ UNCHANGED <<inputs, logLevel, localImages, config, runner, cleanup_manager,
                   cleanupCalls, cleanupIdx, exitCode>>

\* docker_ops.build(self.config, self.runner)
Build ==
    /\ pc = "build"
    /\ steps' = Append(steps, "build")
    /\ LET ref == LocalRef(config)
           cmd == Command(BuildArgv(config), None)
           inspect == IF BuildInspects(config) THEN <<InspectCmd(ref)>> ELSE <<>>
       IN  IF BuildInspects(config) /\ image_exists(ref)
           THEN /\ spawned' = spawned \o inspect
                /\ StepOk("build")
                /\ UNCHANGED localImages
           ELSE \E ok \in Outcomes(cmd) :
                    /\ RunCommand(inspect, cmd, ok)
                    /\ StepEnd("build", RunnerRun(runner, ok).exc)
    /\ UNCHANGED <<inputs, logLevel, config, runner, cleanup_manager, cleanupCalls,
                   cleanupIdx, exitCode>>

\* image = docker_ops.tag_image(self.config, self.runner)
TagImage ==
    /\ pc = "tag"
    /\ steps' = Append(steps, "tag")
    /\ LET cmd == Command(<<W_docker, W_tag, LocalRef(config), TargetRef(config)>>,
                          None)
       IN  \E ok \in Outcomes(cmd) :
                /\ RunCommand(<<>>, cmd, ok)
                /\ StepEnd("tag", RunnerRun(runner, ok).exc)
    /\ UNCHANGED <<inputs, logLevel, config, runner, cleanup_manager, cleanupCalls,
                   cleanupIdx, exitCode>>

\* self.cleanup_manager.register(f"{image_name}:{tag}")
Register ==
    /\ pc = "register"
    /\ steps' = Append(steps, "register")
    /\ cleanup_manager' = [cleanup_manager EXCEPT
                              !.images = Append(@, LocalRef(config))]
    /\ StepOk("register")
    /\ UNCHANGED <<inputs, logLevel, localImages, config, runner, spawned, cleanupCalls,
                   cleanupIdx, exitCode>>

\* docker_ops.push(self.config, image, self.runner)
Push ==
    /\ pc = "push"
    /\ steps' = Append(steps, "push")
    /\ LET cmd == Command(<<W_docker, W_push, TargetRef(config)>>, None)
       IN  \E ok \in Outcomes(cmd) :
                /\ RunCommand(<<>>, cmd, ok)
                /\ StepEnd("push", RunnerRun(runner, ok).exc)
    /\ UNCHANGED <<inputs, logLevel, config, runner, cleanup_manager, cleanupCalls,
                   cleanupIdx, exitCode>>

(***************************************************************************)
(* utils/cleanup.py: CleanupManager                                        *)
(***************************************************************************)
\* `except subprocess.CalledProcessError` catches e
CleanupCatches(e) == e.type = "CalledProcessError"

\* CleanupManager.cleanup is called: it returns at once on an empty list
EnterCleanup ==
    /\ cleanupCalls' = cleanupCalls + 1
    /\ steps' = Append(steps, "cleanup")
    /\ cleanupIdx' = 1
    /\ pc' = IF cleanup_manager.images = <<>> THEN "return" ELSE "cleanup"

\* the finally block of execute_workflow
Finally ==
    /\ pc = "finally"
    /\ IF FinallyCleans(config, exc)
       THEN EnterCleanup
       ELSE pc' = "return" /\ UNCHANGED <<cleanupCalls, cleanupIdx, steps>>
    /\ UNCHANGED <<inputs, logLevel, localImages, config, runner, cleanup_manager, exc,
                   spawned, failedStep, workflowExc, output, exitCode>>

\* one iteration of `for image in self.images`, or the end of the loop
CleanupStep ==
    /\ pc = "cleanup"
    /\ IF cleanupIdx > Len(cleanup_manager.images)
       THEN /\ pc' = "return"
            /\ UNCHANGED <<cleanupIdx, exc, spawned, localImages>>
       ELSE LET image == cleanup_manager.images[cleanupIdx]
                cmd == Command(<<W_docker, W_rmi, image>>, None)
                own == [dry_run |-> cleanup_manager.dry_run]
            IN  IF cleanup_manager.dry_run
                THEN /\ cleanupIdx' = cleanupIdx + 1
                     /\ UNCHANGED <<pc, exc, spawned, localImages>>
                ELSE \E ok \in Outcomes(cmd) :
                        LET res == RunnerRun(own, ok)
                        IN  /\ spawned' = IF res.spawn THEN Append(spawned, cmd)
                                          ELSE spawned
                            /\ localImages' = IF res.spawn /\ ok
                                              THEN DaemonEffect(cmd, localImages)
                                              ELSE localImages
                            /\ IF res.exc = NoExc \/ CleanupCatches(res.exc)
                               THEN /\ cleanupIdx' = cleanupIdx + 1
                                    /\ UNCHANGED <<pc, exc>>
                               ELSE /\ exc' = res.exc
                                    /\ pc' = "return"
                                    /\ UNCHANGED cleanupIdx
    /\ UNCHANGED <<inputs, logLevel, config, runner, cleanup_manager, steps, failedStep,
                   workflowExc, cleanupCalls, output, exitCode>>

(***************************************************************************)
(* cli/__init__.py: the end of main_command and click's standalone mode    *)
(***************************************************************************)
Return ==
    /\ pc = "return"
    /\ pc' = "exit"
    /\ IF exc = NoExc
       THEN /\ output' = Append(output, [text |-> "Completed", args |-> <<>>])
            /\ exitCode' = 0
       ELSE IF exc.type \in ClickExceptions
       THEN /\ output' = Append(output, [text |-> "Error: " \o exc.msg,
                                         args |-> <<>>])
            /\ exitCode' = exc.code
       ELSE output' = output /\ exitCode' = exc.code
    /\ UNCHANGED <<inputs, logLevel, localImages, config, runner, cleanup_manager, exc,
                   spawned, steps, failedStep, workflowExc, cleanupCalls,
                   cleanupIdx>>

(***************************************************************************)
(* The runs of the command-line tool                                       *)
(***************************************************************************)
U_OK == <<"u">>
U_BAD == <<"u", "!">>
IMG == <<"a">>
TAG1 == <<"1">>
DIR_B == <<"b">>
DIR_X == <<"x">>
CWD == <<"w">>
OS_USER == <<"r">>
TOKEN == <<"k","7">>

\* REGISTRY=github
ENV_REGISTRY == <<"R","E","G","I","S","T","R","Y","=","g","i","t","h","u","b">>

Environ(token) ==
    [USER |-> OS_USER, DOCKER_TOKEN |-> token, DOCKER_PASSWORD |-> None,
     GITHUB_TOKEN |-> token, GHCR_TOKEN |-> None]

NoEnvFiles == <<NoFile, NoFile, NoFile, NoFile>>

CmdLines ==
    [registry : {None, DOCKER, GITHUB},
     username : {None, U_OK, U_BAD},
     image_name : {None, IMG},
     tag : {None, TAG1},
     dockerfile_dir : {None, DIR_B, DIR_X},
     no_cache : BOOLEAN, force_rebuild : BOOLEAN, dry_run : BOOLEAN,
     no_cleanup : BOOLEAN, verbose : {FALSE}, quiet : {FALSE}]

\* the state of a process that has not started main_command
Fresh ==
    /\ config = DefaultConfig
    /\ runner = [dry_run |-> FALSE]
    /\ exc = NoExc
    /\ spawned = <<>>
    /\ steps = <<>>
    /\ failedStep = "none"
    /\ workflowExc = NoExc
    /\ cleanupCalls = 0
    /\ cleanupIdx = 0
    /\ output = <<>>
    /\ exitCode = -1
    /\ logLevel = "WARNING"

Init ==
    /\ cmdline \in CmdLines
    /\ environ \in {Environ(None), Environ(TOKEN)}
    /\ cwdName = CWD
    /\ dockerignore = NoFile
    /\ envFiles \in {NoEnvFiles, <<NoFile, File(<<ENV_REGISTRY>>), NoFile, NoFile>>}
    /\ dirs = {DOT, DIR_B, DIR_X}
    /\ dockerfiles = {DOT, DIR_B}
    /\ stdinTty \in BOOLEAN
    /\ dockerOnPath \in BOOLEAN
    /\ daemonUp \in BOOLEAN
    /\ preexisting \in {{}, {IMG \o COLON \o TAG1}}
    /\ localImages = preexisting
    /\ pc = "from_cli"
    /\ cleanup_manager = [dry_run |-> FALSE, images |-> <<>>]
    /\ Fresh

Next ==
    \/ FromCli
    \/ LoadEnv
    \/ Resolve
    \/ CheckDependencies
    \/ Validate
    \/ Login
    \/ Build
    \/ TagImage
    \/ Register
    \/ Push
    \/ Finally
    \/ CleanupStep
    \/ Return

Spec == Init /\ [][Next]_vars

(***************************************************************************)
(* Configuration resolution alone: from_cli, load_env and resolve over a   *)
(* wider choice of command lines and .env files                            *)
(***************************************************************************)
MaxEnvLines == 2

\* IMAGE_NAME=web
ENV_IMAGE_NAME == <<"I","M","A","G","E","_","N","A","M","E","=","w","e","b">>
\* DOCKERFILE_DIR=./b
ENV_DOCKERFILE_DIR ==
    <<"D","O","C","K","E","R","F","I","L","E","_","D","I","R","=",".","/","b">>
\*  use_cache = 'False'
ENV_USE_CACHE ==
    <<" ","u","s","e","_","c","a","c","h","e"," ","="," ","'","F","a","l","s","e","'">>
\* TAG="v2"
ENV_TAG == <<"T","A","G","=","\"","v","2","\"">>
\* # USERNAME=bob
ENV_COMMENT == <<"#"," ","U","S","E","R","N","A","M","E","=","b","o","b">>

\* GITHUB_USERNAME=gh
ENV_GITHUB_USERNAME ==
    <<"G","I","T","H","U","B","_","U","S","E","R","N","A","M","E","=","g","h">>

EnvLines == {ENV_REGISTRY, ENV_IMAGE_NAME, ENV_DOCKERFILE_DIR, ENV_USE_CACHE,
             ENV_TAG, ENV_COMMENT, ENV_GITHUB_USERNAME}

\* the .env files of at most MaxEnvLines lines
EnvFileContents == UNION {[1..n -> EnvLines] : n \in 0..MaxEnvLines}

ConfigCmdLines ==
    [registry : {None, DOCKER, GITHUB},
     username : {None, U_OK},
     image_name : {None, IMG},
     tag : {None, TAG1},
     dockerfile_dir : {None, DOT, DIR_B},
     no_cache : BOOLEAN, force_rebuild : {FALSE}, dry_run : {FALSE},
     no_cleanup : {FALSE}, verbose : {FALSE}, quiet : {FALSE}]

InitConfig ==
    /\ cmdline \in ConfigCmdLines
    /\ environ = Environ(None)
    /\ cwdName = CWD
    /\ dockerignore = NoFile
    /\ envFiles \in {NoEnvFiles}
                    \cup {<<NoFile, File(f), NoFile, NoFile>> : f \in EnvFileContents}
    /\ dirs = {DOT, DIR_B, DIR_X}
    /\ dockerfiles = {DOT, DIR_B}
    /\ stdinTty = FALSE
    /\ dockerOnPath = TRUE
    /\ daemonUp = TRUE
    /\ preexisting = {}
    /\ localImages = preexisting
    /\ pc = "from_cli"
    /\ cleanup_manager = [dry_run |-> FALSE, images |-> <<>>]
    /\ Fresh

NextConfig ==
    \/ FromCli
    \/ LoadEnv
    \/ Resolve

SpecConfig == InitConfig /\ [][NextConfig]_vars

(***************************************************************************)
(* Configuration resolution over every arrangement of .env files at the    *)
(* four locations, inside and outside a directory named docker-ctp         *)
(***************************************************************************)
\* a line of a .env file that sets a token
ENV_DOCKER_TOKEN ==
    <<"D","O","C","K","E","R","_","T","O","K","E","N","=","f","6">>

SearchFiles == {NoFile, File(<<ENV_REGISTRY>>), File(<<ENV_TAG>>),
                File(<<ENV_IMAGE_NAME, ENV_USE_CACHE>>),
                File(<<ENV_DOCKER_TOKEN>>)}

InitSearch ==
    /\ \E c \in ConfigCmdLines, v, q \in BOOLEAN :
          /\ c.registry \in {None, DOCKER}
          /\ c.username = None
          /\ c.dockerfile_dir = None
          /\ ~c.no_cache /\ ~c.dry_run
          /\ cmdline = [c EXCEPT !.verbose = v, !.quiet = q]
    /\ environ = Environ(None)
    /\ cwdName \in {CWD, PROJECT_NAME}
    /\ dockerignore = NoFile
    /\ envFiles \in [1..4 -> SearchFiles]
    /\ dirs = {DOT, DIR_B, DIR_X}
    /\ dockerfiles = {DOT, DIR_B}
    /\ stdinTty = FALSE
    /\ dockerOnPath = TRUE
    /\ daemonUp = TRUE
    /\ preexisting = {}
    /\ localImages = preexisting
    /\ pc = "from_cli"
    /\ cleanup_manager = [dry_run |-> FALSE, images |-> <<>>]
    /\ Fresh

SpecSearch == InitSearch /\ [][NextConfig]_vars

(***************************************************************************)
(* The CleanupManager alone, driven through register and cleanup           *)
(***************************************************************************)
MaxImages == 3

ImageRefs == {IMG \o COLON \o TAG1, IMG \o COLON \o DEFAULT_DOCKERHUB_TAG}

\* CleanupManager.register(image)
ApiRegister ==
    /\ pc = "api"
    /\ Len(cleanup_manager.images) < MaxImages
    /\ \E image \in ImageRefs :
          cleanup_manager' = [cleanup_manager EXCEPT !.images = Append(@, image)]
    /\ UNCHANGED <<inputs, logLevel, localImages, config, runner, pc, exc, spawned, steps,
                   failedStep, workflowExc, cleanupCalls, cleanupIdx, output,
                   exitCode>>

\* CleanupManager.cleanup()
ApiCleanup ==
    /\ pc = "api"
    /\ EnterCleanup
    /\ UNCHANGED <<inputs, logLevel, localImages, config, runner, cleanup_manager, exc,
                   spawned, failedStep, workflowExc, output, exitCode>>

InitCleanup ==
    /\ cmdline \in {c \in CmdLines : /\ c.registry = None /\ c.username = None
                                     /\ c.image_name = None /\ c.tag = None
                                     /\ c.dockerfile_dir = None /\ ~c.no_cache
                                     /\ ~c.force_rebuild /\ ~c.dry_run
                                     /\ ~c.no_cleanup}
    /\ environ = Environ(None)
    /\ cwdName = CWD
    /\ dockerignore = NoFile
    /\ envFiles = NoEnvFiles
    /\ dirs = {DOT}
    /\ dockerfiles = {DOT}
    /\ stdinTty = FALSE
    /\ dockerOnPath = TRUE
    /\ daemonUp = TRUE
    /\ preexisting \in SUBSET ImageRefs
    /\ localImages = preexisting
    /\ pc = "api"
    /\ Fresh
    /\ \E d \in BOOLEAN : cleanup_manager = [dry_run |-> d, images |-> <<>>]

NextCleanup ==
    \/ ApiRegister
    \/ ApiCleanup
    \/ CleanupStep

SpecCleanup == InitCleanup /\ [][NextCleanup]_vars

(***************************************************************************)
(* Runs over every setting of the token variables.  main_command is        *)
(* straight-line code and every call it makes returns or raises, so a run  *)
(* that can take a step eventually takes one.                              *)
(***************************************************************************)
TOKEN2 == <<"p","8">>

EnvironOf(dt, dp, gt, gp) ==
    [USER |-> OS_USER, DOCKER_TOKEN |-> dt, DOCKER_PASSWORD |-> dp,
     GITHUB_TOKEN |-> gt, GHCR_TOKEN |-> gp]

TokenEnvirons ==
    {EnvironOf(dt, dp, gt, gp) : dt \in {None, <<>>, TOKEN}, dp \in {None, TOKEN2},
                                 gt \in {None, <<>>, TOKEN}, gp \in {None, TOKEN2}}

TokenCmdLines ==
    [registry : {None, GITHUB},
     username : {U_OK, U_BAD},
     image_name : {IMG},
     tag : {TAG1},
     dockerfile_dir : {DIR_B, DIR_X},
     no_cache : {FALSE}, force_rebuild : {FALSE}, dry_run : BOOLEAN,
     no_cleanup : BOOLEAN, verbose : {FALSE}, quiet : {FALSE}]

InitTokens ==
    /\ cmdline \in TokenCmdLines
    /\ environ \in TokenEnvirons
    /\ cwdName = CWD
    /\ dockerignore = NoFile
    /\ envFiles = NoEnvFiles
    /\ dirs = {DOT, DIR_B, DIR_X}
    /\ dockerfiles = {DOT, DIR_B}
    /\ stdinTty \in BOOLEAN
    /\ dockerOnPath \in BOOLEAN
    /\ daemonUp \in BOOLEAN
    /\ preexisting = {}
    /\ localImages = preexisting
    /\ pc = "from_cli"
    /\ cleanup_manager = [dry_run |-> FALSE, images |-> <<>>]
    /\ Fresh

SpecTokens == InitTokens /\ [][Next]_vars /\ WF_vars(Next)

(***************************************************************************)
(* Config.resolve alone, called on a Config whose attributes were set      *)
(***************************************************************************)
ResolveInputs ==
    {[DefaultConfig EXCEPT !.registry = r, !.docker_username = d,
                           !.github_username = g, !.username = u,
                           !.image_name = i, !.tag = t] :
        r \in {DOCKER, GITHUB}, d \in {OS_USER, <<"d">>},
        g \in {OS_USER, <<"g","h">>}, u \in {<<>>, U_OK},
        i \in {CWD, IMG}, t \in {None, <<>>, TAG1}}

\* cfg.resolve(), called once and then once more
ApiResolve ==
    /\ pc \in {"api", "resolved"}
    /\ config' = resolve(config)
    /\ pc' = IF pc = "api" THEN "resolved" ELSE "resolved_again"
    /\ UNCHANGED <<inputs, logLevel, localImages, runner, cleanup_manager, exc, spawned,
                   steps, failedStep, workflowExc, cleanupCalls, cleanupIdx,
                   output, exitCode>>

InitResolve ==
    /\ cmdline \in {c \in CmdLines : /\ c.registry = None /\ c.username = None
                                     /\ c.image_name = None /\ c.tag = None
                                     /\ c.dockerfile_dir = None /\ ~c.no_cache
                                     /\ ~c.force_rebuild /\ ~c.dry_run
                                     /\ ~c.no_cleanup}
    /\ environ = Environ(None)
    /\ cwdName = CWD
    /\ dockerignore = NoFile
    /\ envFiles = NoEnvFiles
    /\ dirs = {DOT}
    /\ dockerfiles = {DOT}
    /\ stdinTty = FALSE
    /\ dockerOnPath = TRUE
    /\ daemonUp = TRUE
    /\ preexisting = {}
    /\ localImages = preexisting
    /\ pc = "api"
    /\ cleanup_manager = [dry_run |-> FALSE, images |-> <<>>]
    /\ config \in ResolveInputs
    /\ runner = [dry_run |-> FALSE]
    /\ exc = NoExc
    /\ spawned = <<>>
    /\ steps = <<>>
    /\ failedStep = "none"
    /\ workflowExc = NoExc
    /\ cleanupCalls = 0
    /\ cleanupIdx = 0
    /\ output = <<>>
    /\ exitCode = -1
    /\ logLevel = "WARNING"

SpecResolve == InitResolve /\ [][ApiResolve]_vars

(***************************************************************************)
(* DockerService._validate_inputs alone, called on a Config whose          *)
(* attributes were set                                                     *)
(***************************************************************************)
\* strings at the borders of the identifier pattern: empty, one character,
\* a character outside the class, a newline at the end, a newline alone,
\* IDENT_MAX_LEN characters and one more
ValidateIdents ==
    {<<>>, U_OK, U_BAD, <<"u", "\n">>, <<"\n">>, <<"A", ".", "_", "-", "9">>,
     [i \in 1..IDENT_MAX_LEN |-> "a"], [i \in 1..(IDENT_MAX_LEN + 1) |-> "a"]}

\* service._validate_inputs()
ApiValidate ==
    /\ pc = "api"
    /\ exc' = validate_inputs(config)
    /\ pc' = "validated"
    /\ UNCHANGED <<inputs, logLevel, localImages, config, runner, cleanup_manager,
                   spawned, steps, failedStep, workflowExc, cleanupCalls,
                   cleanupIdx, output, exitCode>>

InitValidate ==
    /\ cmdline \in {c \in CmdLines : /\ c.registry = None /\ c.username = None
                                     /\ c.image_name = None /\ c.tag = None
                                     /\ c.dockerfile_dir = None /\ ~c.no_cache
                                     /\ ~c.force_rebuild /\ ~c.dry_run
                                     /\ ~c.no_cleanup}
    /\ environ = Environ(None)
    /\ cwdName = CWD
    /\ dockerignore = NoFile
    /\ envFiles = NoEnvFiles
    /\ dirs = {DOT}
    /\ dockerfiles = {DOT}
    /\ stdinTty = FALSE
    /\ dockerOnPath = TRUE
    /\ daemonUp = TRUE
    /\ preexisting = {}
    /\ localImages = preexisting
    /\ pc = "api"
    /\ cleanup_manager = [dry_run |-> FALSE, images |-> <<>>]
    /\ \E r \in {DOCKER, GITHUB, GHCR_IO}, u, i \in ValidateIdents,
          t \in {None, <<>>, TAG1, U_BAD, <<"1", "\n">>} :
          config = [DefaultConfig EXCEPT !.registry = r, !.username = u,
                                         !.image_name = i, !.tag = t]
    /\ runner = [dry_run |-> FALSE]
    /\ exc = NoExc
    /\ spawned = <<>>
    /\ steps = <<>>
    /\ failedStep = "none"
    /\ workflowExc = NoExc
    /\ cleanupCalls = 0
    /\ cleanupIdx = 0
    /\ output = <<>>
    /\ exitCode = -1
    /\ logLevel = "WARNING"

SpecValidate == InitValidate /\ [][ApiValidate]_vars

(***************************************************************************)
(* utils/config_generation.py: generate_config_files(dry_run), called      *)
(* once and then once more on the files the first call left                *)
(***************************************************************************)
\* the lines of ENV_TEMPLATE that set DOCKERFILE_DIR and REGISTRY (its
\* comments, blank lines and other settings are left out)
ENV_TEMPLATE ==
    <<<<"D","O","C","K","E","R","F","I","L","E","_","D","I","R","=","\"",".","\"">>,
      <<"R","E","G","I","S","T","R","Y","=","\"","d","o","c","k","e","r","\"">>>>

\* two of the patterns of DOCKERIGNORE_TEMPLATE
DOCKERIGNORE_TEMPLATE == <<<<".","g","i","t">>, <<".","e","n","v">>>>

\* a slip: an existing file does not stop the write
WritesTemplate_Overwrites(file, dry_run) == ~dry_run

\* generate_config_files, whether a write of the template is attempted:
\* `if path.exists(): ... else: if dry_run: ... else: try: write_text`
WritesTemplate(file, dry_run) == ~file.exists /\ ~dry_run

\* generate_config_files(dry_run): envFiles[2] is ~/.config/docker-ctp/.env;
\* mkdir or write_text may raise OSError, which is logged and not raised
ApiGenerateConfig ==
    /\ pc \in {"api", "generated"}
    /\ pc' = IF pc = "api" THEN "generated" ELSE "generated_again"
    /\ \E okEnv, okIgnore \in BOOLEAN :
          LET writeEnv == WritesTemplate(envFiles[2], cmdline.dry_run)
              writeIgnore == WritesTemplate(dockerignore, cmdline.dry_run)
              Log(ok, name) ==
                  <<[text |-> IF ok THEN "Generated: %s"
                              ELSE "Failed to generate %s: %s",
                     args |-> <<name>>]>>
          IN  /\ ~writeEnv => okEnv
              /\ ~writeIgnore => okIgnore
              /\ envFiles' = IF writeEnv /\ okEnv
                             THEN [envFiles EXCEPT ![2] = File(ENV_TEMPLATE)]
                             ELSE envFiles
              /\ dockerignore' = IF writeIgnore /\ okIgnore
                                 THEN File(DOCKERIGNORE_TEMPLATE)
                                 ELSE dockerignore
              /\ output' = output
                     \o (IF writeEnv THEN Log(okEnv, <<".","e","n","v">>)
                         ELSE <<>>)
                     \o (IF writeIgnore
                         THEN Log(okIgnore, <<".","d","o","c","k","e","r","i",
                                              "g","n","o","r","e">>)
                         ELSE <<>>)
    /\ UNCHANGED <<cmdline, environ, cwdName, dirs, dockerfiles, stdinTty,
                   dockerOnPath, daemonUp, preexisting, logLevel, localImages,
                   config, runner, cleanup_manager, exc, spawned, steps,
                   failedStep, workflowExc, cleanupCalls, cleanupIdx, exitCode>>

InitGenerate ==
    /\ cmdline \in {c \in CmdLines : /\ c.registry = None /\ c.username = None
                                     /\ c.image_name = None /\ c.tag = None
                                     /\ c.dockerfile_dir = None /\ ~c.no_cache
                                     /\ ~c.force_rebuild /\ ~c.no_cleanup}
    /\ environ = Environ(None)
    /\ cwdName = CWD
    /\ dockerignore \in {NoFile, File(<<>>), File(DOCKERIGNORE_TEMPLATE)}
    /\ \E f \in SearchFiles \cup {File(ENV_TEMPLATE)} :
          envFiles = <<NoFile, f, NoFile, NoFile>>
    /\ dirs = {DOT}
    /\ dockerfiles = {DOT}
    /\ stdinTty = FALSE
    /\ dockerOnPath = TRUE
    /\ daemonUp = TRUE
    /\ preexisting = {}
    /\ localImages = preexisting
    /\ pc = "api"
    /\ cleanup_manager = [dry_run |-> FALSE, images |-> <<>>]
    /\ config = DefaultConfig
    /\ runner = [dry_run |-> FALSE]
    /\ exc = NoExc
    /\ spawned = <<>>
    /\ steps = <<>>
    /\ failedStep = "none"
    /\ workflowExc = NoExc
    /\ cleanupCalls = 0
    /\ cleanupIdx = 0
    /\ output = <<>>
    /\ exitCode = -1
    /\ logLevel = "WARNING"

SpecGenerate == InitGenerate /\ [][ApiGenerateConfig]_vars

(***************************************************************************)
(* Properties                                                              *)
(***************************************************************************)
IsPrefix(a, b) == Len(a) <= Len(b) /\ \A i \in DOMAIN a : a[i] = b[i]

\* the workflow steps started so far, without the cleanup of the finally block
PipelineSteps == SelectSeq(steps, LAMBDA st : st # "cleanup")

\* execute_workflow has been entered
InWorkflow == steps # <<>>

\* the targets of the docker rmi commands spawned so far, in order
RmiTargets ==
    LET rmi == SelectSeq(spawned, LAMBDA cmd : SubCommand(cmd) = W_rmi)
    IN  [i \in DOMAIN rmi |-> rmi[i].argv[3]]

\* C1: the workflow steps start in the order validate, login, build, tag,
\* register, push, each at most once, and no step starts after a step raised.
C1_StepsInOrder ==
    /\ IsPrefix(PipelineSteps,
                <<"validate", "login", "build", "tag", "register", "push">>)
    /\ failedStep # "none" =>
          /\ PipelineSteps # <<>>
          /\ PipelineSteps[Len(PipelineSteps)] = failedStep

\* a run whose tag step raised: nothing was registered or pushed
C1_Witness ==
    /\ pc = "exit"
    /\ failedStep = "tag"
    /\ steps = <<"validate", "login", "build", "tag", "cleanup">>

\* C2: whatever the outcome of execute_workflow, cleanup is called exactly
\* once, after the last step that ran, when cleanup_on_exit is true, and is
\* never called when it is false.
C2_CleanupExactlyOnce ==
    /\ cleanupCalls <= 1
    /\ cleanupCalls = 1 => config.cleanup_on_exit /\ steps[Len(steps)] = "cleanup"
    /\ (InWorkflow /\ pc \in {"return", "exit"}) =>
          cleanupCalls = IF config.cleanup_on_exit THEN 1 ELSE 0

\* a run whose login raised and that cleaned up once
C2_Witness ==
    /\ pc = "exit"
    /\ failedStep = "login"
    /\ cleanupCalls = 1

\* C3: with dry-run enabled no external process is spawned at any point of
\* the run.
C3_DryRunSpawnsNothing == runner.dry_run => spawned = <<>>

\* C4: no external command is executed before validation has succeeded.
C4_ValidationBeforeCommands ==
    spawned # <<>> => (InWorkflow /\ failedStep # "validate")

\* the fields whose CLI flag was given on the command line
GivenFields ==
    {f \in {"registry", "username", "image_name", "tag", "dockerfile_dir"} :
        cmdline[f] # None}
    \cup (IF cmdline.no_cache THEN {"use_cache"} ELSE {})
    \cup (IF cmdline.force_rebuild THEN {"force_rebuild"} ELSE {})
    \cup (IF cmdline.dry_run THEN {"dry_run"} ELSE {})
    \cup (IF cmdline.no_cleanup THEN {"cleanup_on_exit"} ELSE {})
    \cup (IF cmdline.verbose \/ cmdline.quiet THEN {"log_level"} ELSE {})

\* the .env merge has happened
EnvMerged == pc \notin {"from_cli", "load_env"}

\* C5: a field whose value was supplied by a CLI flag still has that value
\* after load_env, also when the value equals the built-in default.
C5_CliValuesKept ==
    EnvMerged => \A f \in GivenFields : config[f] = from_cli(kwargs)[f]

\* the lines of the loaded .env file
LoadedLines == IF FoundEnv = 0 THEN <<>> ELSE envFiles[FoundEnv].lines

\* C6: a recognised key of the loaded .env file whose field no CLI flag
\* supplied gives the field its value.
C6_EnvValuesApplied ==
    EnvMerged =>
        \A i \in DOMAIN LoadedLines :
            LET key == LineKey(LoadedLines[i])
                f == KeyField(key)
            IN  (key # None /\ f # "none" /\ f \notin GivenFields) =>
                    config[f] = ConvertValue(f, LineValue(LoadedLines[i]))

\* C7: every image reference that cleanup removes was built by this run.
C7_CleanupRemovesOnlyBuilt ==
    \A i \in DOMAIN spawned :
        SubCommand(spawned[i]) = W_rmi =>
            \E j \in 1..(i - 1) :
                /\ SubCommand(spawned[j]) = W_build
                /\ BuildRef(spawned[j]) = spawned[i].argv[3]

\* C8: cleanup attempts the removal of every registered entry, once each and
\* in registration order, whatever the outcome of the earlier attempts.
C8_OneAttemptPerEntry ==
    (pc = "return" /\ cleanupCalls = 1 /\ ~cleanup_manager.dry_run) =>
        RmiTargets = cleanup_manager.images

\* C9: the error and the exit status of a run are those of the workflow
\* steps, whatever the outcome of the removals of cleanup.
C9_CleanupKeepsOutcome ==
    (InWorkflow /\ pc = "exit") =>
        /\ exc = workflowExc
        /\ exitCode = workflowExc.code

\* C10: a command that Runner.run ran and that exited with a non-zero status
\* surfaces as DockerOperationError.
C10_RunnerRaisesOperationError ==
    failedStep \in {"build", "tag", "push"} =>
        workflowExc.type = "DockerOperationError"

\* C11: a run whose validation failed ends with exit code 1 and an
\* "Error: ..." message, and has attempted none of login, build, tag, push;
\* in dry-run as well.
C11_ValidationFailureStops ==
    (pc = "exit" /\ failedStep = "validate") =>
        /\ exitCode = 1
        /\ output # <<>>
        /\ output[Len(output)].text = "Error: " \o workflowExc.msg
        /\ PipelineSteps = <<"validate">>
        /\ \A i \in DOMAIN spawned :
              SubCommand(spawned[i]) \notin {W_login, W_build, W_tag, W_push}

\* a dry-run with an invalid username that has ended
C11_Witness ==
    /\ pc = "exit"
    /\ runner.dry_run
    /\ cmdline.username = U_BAD
    /\ failedStep = "validate"
    /\ workflowExc.msg = "Invalid username"

\* a dry-run command line whose username, image name and tag match the
\* identifier pattern and whose dockerfile-dir holds a Dockerfile
DryRunValid ==
    /\ cmdline.dry_run
    /\ \A f \in {"username", "image_name", "tag"} :
          cmdline[f] # None /\ IdentFull(cmdline[f])
    /\ cmdline.dockerfile_dir # None
    /\ PathOf(cmdline.dockerfile_dir) \in dockerfiles

\* the run has ended with "Completed" and exit code 0
RunCompleted ==
    /\ pc = "exit"
    /\ exitCode = 0
    /\ output # <<>>
    /\ output[Len(output)].text = "Completed"

LoginCommands == SelectSeq(spawned, LAMBDA cmd : SubCommand(cmd) = W_login)

\* the token variables of the registry in effect, primary first
TokenVars ==
    IF config.registry = DOCKER THEN <<"DOCKER_TOKEN", "DOCKER_PASSWORD">>
    ELSE <<"GITHUB_TOKEN", "GHCR_TOKEN">>

\* the login step has run outside dry-run
LoginRan == "login" \in Range(steps) /\ ~runner.dry_run

\* C20: the token handed to docker login is the value of the primary token
\* variable of the registry when that is non-empty, else the value of the
\* fallback variable when that is non-empty; when neither is set and stdin
\* is no terminal, login fails with AuthError and no docker login is run.
C20_TokenPriority ==
    LoginRan =>
        LET primary == environ[TokenVars[1]]
            fallback == environ[TokenVars[2]]
        IN  /\ ~Falsy(primary) =>
                /\ Len(LoginCommands) = 1
                /\ LoginCommands[1].stdin = primary
            /\ (Falsy(primary) /\ ~Falsy(fallback)) =>
                /\ Len(LoginCommands) = 1
                /\ LoginCommands[1].stdin = fallback
            /\ (Falsy(primary) /\ Falsy(fallback) /\ ~stdinTty) =>
                /\ LoginCommands = <<>>
                /\ failedStep = "login"
                /\ workflowExc.type = "AuthError"

\* a github login that fell back to GHCR_TOKEN past an empty GITHUB_TOKEN
C20_Witness ==
    /\ LoginRan
    /\ config.registry = GITHUB
    /\ environ["GITHUB_TOKEN"] = <<>>
    /\ environ["DOCKER_TOKEN"] = TOKEN
    /\ Len(LoginCommands) = 1
    /\ LoginCommands[1].stdin = TOKEN2

\* the locations that are candidates, in search order: <cwd>/.env only in a
\* directory named docker-ctp
Candidates ==
    IF cwdName = <<"d","o","c","k","e","r","-","c","t","p">>
    THEN {1, 2, 3, 4} ELSE {2, 3, 4}

\* the first candidate that exists, 0 when there is none
FirstExisting ==
    IF \E i \in Candidates : envFiles[i].exists
    THEN CHOOSE i \in Candidates :
            /\ envFiles[i].exists
            /\ \A j \in Candidates : envFiles[j].exists => i <= j
    ELSE 0

\* C13: after load_env the configuration is the CLI configuration merged
\* with the lines of the first existing candidate file alone (the CLI
\* configuration itself when no candidate exists); no other file has any
\* effect.
C13_FirstFileOnly ==
    pc = "resolve" =>
        config = IF FirstExisting = 0 THEN from_cli(kwargs)
                 ELSE resolve(ApplyLines(from_cli(kwargs),
                                         envFiles[FirstExisting].lines))

\* outside docker-ctp with ./.env present: ~/.docker-ctp/.env is loaded and
\* neither ./.env nor /etc/docker-ctp/.env has an effect
C13_Witness ==
    /\ pc = "resolve"
    /\ cwdName = CWD
    /\ cmdline.registry = None
    /\ cmdline.tag = None
    /\ envFiles[1] = File(<<ENV_REGISTRY>>)
    /\ envFiles[2] = NoFile
    /\ envFiles[3] = File(<<ENV_TAG>>)
    /\ envFiles[4] = File(<<ENV_REGISTRY>>)
    /\ config.registry = DOCKER
    /\ config.tag = <<"v", "2">>

\* the keys of the lines of the loaded .env file that have one
LoadedKeys ==
    {LineKey(LoadedLines[i]) : i \in DOMAIN LoadedLines} \ {None}

\* the CLI leaves registry, username and tag unset and the loaded .env sets
\* REGISTRY=github and neither USERNAME nor TAG
GithubByEnvOnly ==
    /\ cmdline.registry = None
    /\ cmdline.username = None
    /\ cmdline.tag = None
    /\ \E i \in DOMAIN LoadedLines :
          /\ LineKey(LoadedLines[i]) = <<"r","e","g","i","s","t","r","y">>
          /\ LineValue(LoadedLines[i]) = GITHUB
    /\ <<"u","s","e","r","n","a","m","e">> \notin LoadedKeys
    /\ <<"t","a","g">> \notin LoadedKeys

\* C14: when only the loaded .env selects the github registry, the username
\* is github_username and the tag is main from the end of the merge on.
C14_DefaultsFromMergedRegistry ==
    (EnvMerged /\ GithubByEnvOnly) =>
        /\ config.registry = GITHUB
        /\ config.username = config.github_username
        /\ config.tag = <<"m","a","i","n">>

\* such a run, with GITHUB_USERNAME=gh in the file as well
C14_Witness ==
    /\ pc = "check_dependencies"
    /\ GithubByEnvOnly
    /\ config.docker_username = OS_USER
    /\ config.username = <<"g","h">>
    /\ config.tag = DEFAULT_GITHUB_TAG

\* C15: a call of resolve on a configuration whose registry is docker or
\* github sets an empty or None tag to latest for docker and to main for
\* github, and leaves a non-empty tag as it is.
C15_ResolveDefaultTag ==
    [][(pc = "api" /\ pc' = "resolved") =>
          config'.tag = IF config.tag = None \/ config.tag = <<>>
                        THEN IF config.registry = DOCKER
                             THEN <<"l","a","t","e","s","t">>
                             ELSE <<"m","a","i","n">>
                        ELSE config.tag]_vars

\* resolve has filled the tag of a github configuration
C15_Witness ==
    /\ pc = "resolved"
    /\ config.registry = GITHUB
    /\ config.tag = <<"m","a","i","n">>

\* C16: a call of resolve sets an empty username to docker_username for
\* registry docker and to github_username for registry github, and leaves a
\* non-empty username as it is.
C16_ResolveDefaultUsername ==
    [][(pc = "api" /\ pc' = "resolved") =>
          config'.username = IF config.username = <<>>
                             THEN IF config.registry = DOCKER
                                  THEN config.docker_username
                                  ELSE config.github_username
                             ELSE config.username]_vars

\* resolve has filled the username of a github configuration whose
\* docker_username differs
C16_Witness ==
    /\ pc = "resolved"
    /\ config.registry = GITHUB
    /\ config.docker_username = <<"d">>
    /\ config.github_username = <<"g","h">>
    /\ config.username = <<"g","h">>

\* <image_name>:<tag> of the configuration
LocalName == config.image_name \o <<":">> \o config.tag

\* the registry-qualified name of the configuration
QualifiedName ==
    IF config.registry = <<"d","o","c","k","e","r">>
    THEN config.docker_username \o <<"/">> \o LocalName
    ELSE <<"g","h","c","r",".","i","o","/">> \o config.github_username
         \o <<"/">> \o LocalName

\* C17: the cleanup registry never holds more than one entry, and after a
\* run it holds exactly <image_name>:<tag> when the tag step completed and
\* nothing when the run failed at or before the tag step.
C17_RegistryHoldsLocalRef ==
    /\ Len(cleanup_manager.images) <= 1
    /\ (InWorkflow /\ pc = "exit") =>
          cleanup_manager.images =
              IF failedStep \in {"validate", "login", "build", "tag"}
              THEN <<>> ELSE <<LocalName>>

\* a github run that failed at push, after the tag step
C17_Witness ==
    /\ pc = "exit"
    /\ failedStep = "push"
    /\ config.registry = GITHUB
    /\ cleanup_manager.images = <<LocalName>>

\* C18: every docker tag command names <image_name>:<tag> as source and the
\* registry-qualified name as target, and every docker push command pushes
\* that same target, after the tag command.
C18_TagThenPushQualified ==
    \A i \in DOMAIN spawned :
        /\ SubCommand(spawned[i]) = W_tag =>
              spawned[i].argv = <<DOCKER, W_tag, LocalName, QualifiedName>>
        /\ SubCommand(spawned[i]) = W_push =>
              /\ spawned[i].argv = <<DOCKER, W_push, QualifiedName>>
              /\ \E j \in 1..(i - 1) :
                    /\ SubCommand(spawned[j]) = W_tag
                    /\ spawned[j].argv[4] = spawned[i].argv[3]

\* a github run with -u that pushed ghcr.io/<github_username>/<image>:<tag>
C18_Witness ==
    /\ config.registry = GITHUB
    /\ cmdline.username = U_OK
    /\ config.github_username = OS_USER
    /\ \E i \in DOMAIN spawned :
          spawned[i].argv = <<DOCKER, W_push, GHCR_IO \o SLASH \o OS_USER \o SLASH
                                                \o IMG \o COLON \o TAG1>>

\* the positions in spawned of the commands docker <sub> ...
Positions(sub) == {i \in DOMAIN spawned : SubCommand(spawned[i]) = sub}

\* C19: once the build step has run: without force_rebuild exactly one
\* docker image inspect <image_name>:<tag> was spawned, before any docker
\* build, and when the image existed no docker build was spawned and the
\* step did not fail, so the tag step follows; with force_rebuild no inspect
\* was spawned and, outside dry-run, docker build was.
C19_BuildSkipsExisting ==
    "build" \in Range(steps) =>
        IF config.force_rebuild
        THEN /\ Positions(W_image) = {}
             /\ ~runner.dry_run => Cardinality(Positions(W_build)) = 1
        ELSE /\ Cardinality(Positions(W_image)) = 1
             /\ \A i \in Positions(W_image) :
                   /\ spawned[i].argv = <<DOCKER, W_image, W_inspect, LocalName>>
                   /\ \A b \in Positions(W_build) : i < b
             /\ (daemonUp /\ LocalName \in preexisting) =>
                   /\ Positions(W_build) = {}
                   /\ failedStep # "build"
                   /\ pc = "tag" \/ "tag" \in Range(steps)

\* a finished run that skipped the build of an existing image and pushed
C19_Witness ==
    /\ pc = "exit"
    /\ ~config.force_rebuild
    /\ ~runner.dry_run
    /\ LocalName \in preexisting
    /\ Positions(W_build) = {}
    /\ Positions(W_push) # {}

\* sub occurs in s as a substring
Contains(s, sub) ==
    \E i \in 1..(Len(s) - Len(sub) + 1) : SubSeq(s, i, i + Len(sub) - 1) = sub

\* every token this run can use: the token variables that are set and not
\* empty, and what the user may type at the prompt
Secrets ==
    ({environ[k] : k \in {"DOCKER_TOKEN", "DOCKER_PASSWORD", "GITHUB_TOKEN",
                          "GHCR_TOKEN"}} \cup TypedTokens) \ {None, <<>>}

LevelNamed(log_level) ==
    IF log_level = LOG_QUIET THEN "ERROR"
    ELSE IF log_level = LOG_VERBOSE THEN "DEBUG" ELSE "INFO"

\* C30: once configure_logging and Config.from_cli have run, the log_level
\* stored in the configuration names the level that was installed, whatever
\* the --verbose and --quiet flags are.
C30_LogLevelAgrees ==
    pc = "load_env" => LevelNamed(config.log_level) = logLevel

\* C29: the reference that docker tag creates and docker push pushes has
\* the resolved username, the one handed to docker login -u, as its
\* namespace.
C29_NamespaceIsResolvedUsername ==
    \A i \in DOMAIN spawned :
        SubCommand(spawned[i]) \in {W_tag, W_push} =>
            spawned[i].argv[Len(spawned[i].argv)] =
                (IF config.registry = DOCKER THEN <<>> ELSE GHCR_IO \o SLASH)
                \o config.username \o SLASH \o config.image_name
                \o COLON \o config.tag

\* validation has run on a configuration whose registry, username, image
\* name and tag are valid and whose dockerfile_dir is a directory without a
\* Dockerfile
ValidatedWithoutDockerfile ==
    /\ "validate" \in Range(steps)
    /\ pc # "validate"
    /\ config.registry \in {DOCKER, GITHUB}
    /\ IdentFull(config.username)
    /\ IdentFull(config.image_name)
    /\ IdentFull(config.tag)
    /\ config.dockerfile_dir \in dirs \ dockerfiles

\* C22: validation of an existing directory without a Dockerfile, all other
\* inputs valid, fails with "Dockerfile not found"; no pipeline step runs
\* and the run ends with that error and exit code 1.
C22_MissingDockerfileFails ==
    ValidatedWithoutDockerfile =>
        /\ failedStep = "validate"
        /\ workflowExc = ClickError("ValidationError", "Dockerfile not found")
        /\ PipelineSteps = <<"validate">>
        /\ \A i \in DOMAIN spawned :
              SubCommand(spawned[i]) \notin {W_login, W_build, W_tag, W_push}
        /\ pc = "exit" =>
              /\ exitCode = 1
              /\ output[Len(output)].text = "Error: Dockerfile not found"

\* a run outside dry-run on a directory without a Dockerfile has ended
C22_Witness ==
    /\ ValidatedWithoutDockerfile
    /\ ~runner.dry_run
    /\ pc = "exit"
    /\ exitCode = 1

\* check_dependencies has returned or raised
DependenciesChecked ==
    pc \notin {"from_cli", "load_env", "resolve", "check_dependencies"}

\* C25: once check_dependencies is over: without a docker executable it
\* raised DependencyError, in dry-run too, nothing was spawned and the
\* pipeline did not start; with the executable, docker info was spawned, as
\* the first command, exactly when dry-run is off, and when that probe
\* failed DependencyError was raised and the pipeline did not start.
C25_DependencyCheck ==
    DependenciesChecked =>
        /\ ~dockerOnPath =>
              /\ exc = ClickError("DependencyError", "Docker is not installed")
              /\ spawned = <<>>
              /\ steps = <<>>
        /\ dockerOnPath =>
              /\ (\E i \in DOMAIN spawned : spawned[i] = InfoCmd)
                    <=> ~runner.dry_run
              /\ \A i \in DOMAIN spawned :
                    spawned[i] = InfoCmd => i = 1 /\ ~runner.dry_run
              /\ (~runner.dry_run /\ ~daemonUp) =>
                    /\ exc = ClickError("DependencyError",
                                        "Docker daemon is not running.")
                    /\ spawned = <<InfoCmd>>
                    /\ steps = <<>>
        /\ (exc.type = "DependencyError" /\ pc = "exit") => exitCode = 1

\* a dry-run that ended for want of a docker executable
C25_Witness ==
    /\ pc = "exit"
    /\ runner.dry_run
    /\ ~dockerOnPath
    /\ exc.type = "DependencyError"
    /\ exitCode = 1

\* C28: a second call of resolve changes no field of the configuration
\* that the first call left.
C28_ResolveIdempotent ==
    [][(pc = "resolved" /\ pc' = "resolved_again") => config' = config]_vars

\* resolve was called twice on a configuration without username and tag
C28_Witness ==
    /\ pc = "resolved_again"
    /\ config.username = <<"d">>
    /\ config.tag = DEFAULT_DOCKERHUB_TAG

\* C21: once load_env has loaded a .env file that sets DOCKER_TOKEN, in a
\* process whose environment does not set it, the token that get_token finds
\* for registry docker is the one of the file.
C21_EnvFileTokenAvailable ==
    (/\ pc \notin {"from_cli", "load_env"}
     /\ FoundEnv # 0
     /\ ENV_DOCKER_TOKEN \in Range(envFiles[FoundEnv].lines)
     /\ environ["DOCKER_TOKEN"] = None) =>
        EnvToken(DOCKER) = LineValue(ENV_DOCKER_TOKEN)

\* s is made of 1 to 100 letters, digits, ".", "_" and "-"
WellFormed(s) ==
    /\ Len(s) \in 1..100
    /\ \A k \in 1..Len(s) :
          s[k] \in Range(UpperCase) \cup Range(LowerCase) \cup Digits
                   \cup {".", "_", "-"}

\* C23: validation reports a registry outside docker and github as
\* ConfigError, an empty username or, the username being well-formed, an
\* empty image name as ConfigError, and a non-empty username that does not
\* match the pattern as ValidationError.
C23_EmptyIsConfigError ==
    pc = "validated" =>
        /\ config.registry \notin {DOCKER, GITHUB} => exc.type = "ConfigError"
        /\ config.registry \in {DOCKER, GITHUB} =>
              /\ config.username = <<>> => exc.type = "ConfigError"
              /\ (WellFormed(config.username) /\ config.image_name = <<>>) =>
                    exc.type = "ConfigError"
              /\ (config.username # <<>> /\ ~WellFormed(config.username)) =>
                    exc.type = "ValidationError"

\* C26: each of validate_username, validate_image_name and validate_tag
\* accepts a string exactly when it is well-formed, and rejects every other
\* string, one that ends with a newline included, with ValidationError.
C26_PatternIsExact ==
    pc = "validated" =>
        /\ validate_username(config.username) = NoExc
              <=> WellFormed(config.username)
        /\ validate_image_name(config.image_name) = NoExc
              <=> WellFormed(config.image_name)
        /\ validate_tag(config.tag) = NoExc <=> WellFormed(config.tag)
        /\ config.registry \in {DOCKER, GITHUB} =>
              (exc.type = "ValidationError"
                 <=> \/ ~WellFormed(config.username)
                     \/ ~WellFormed(config.image_name)
                     \/ ~Falsy(config.tag) /\ ~WellFormed(config.tag))

\* a file that did not exist before the step exists after it
Created(before, after) == ~before.exists /\ after.exists

\* the step is a call of generate_config_files
GenerateCall == pc \in {"api", "generated"} /\ pc' # pc

\* the call logged a failure to write the file of that name
WriteFailed(name) ==
    \E j \in (Len(output) + 1)..Len(output') :
        /\ output'[j].text = "Failed to generate %s: %s"
        /\ output'[j].args = <<name>>

====
